---- MODULE Spec2Model ----
(***************************************************************************)
(* Model of the Pngme chunk core: ChunkType (src/src/chunk_type.rs) and    *)
(* Chunk (src/src/chunk.rs).                                               *)
(*                                                                         *)
(* A u8 is an integer in 0..255.  A u32 is a pair <<hi, lo>> of 16-bit     *)
(* halves (value = hi * 65536 + lo), so that every u32 operation keeps its *)
(* 32-bit width.  A &[u8] / Vec<u8> is a sequence of u8.  A &str / String  *)
(* is a sequence of Unicode scalar values; its bytes are its UTF-8         *)
(* encoding.                                                               *)
(***************************************************************************)
EXTENDS Integers, Sequences, FiniteSets, TLC

VARIABLES pc, in_type, in_data, chunk, valid, bytes, result, out, text, shown,
          str, ct, rhs, eqres, flags

vars == <<pc, in_type, in_data, chunk, valid, bytes, result, out, text, shown,
          str, ct, rhs, eqres, flags>>

chunkVars == <<in_type, in_data, chunk, valid, bytes, result, out, text>>
typeVars == <<str, ct, rhs, eqres, flags>>

(***************************************************************************)
(* Bounds of the model.                                                    *)
(***************************************************************************)
MaxData == 2
MaxExtra == 1
MaxStrLen == 5

(***************************************************************************)
(* Bit operations on non-negative integers.                                *)
(***************************************************************************)
\* one bit of a, at position k
Bit(a, k) == (a \div (2 ^ k)) % 2

\* a ^ b and a & b for 4-bit values
XorNibble ==
    [x \in 0..15, y \in 0..15 |->
        ((Bit(x, 0) + Bit(y, 0)) % 2) + 2 * ((Bit(x, 1) + Bit(y, 1)) % 2)
        + 4 * ((Bit(x, 2) + Bit(y, 2)) % 2) + 8 * ((Bit(x, 3) + Bit(y, 3)) % 2)]

AndNibble ==
    [x \in 0..15, y \in 0..15 |->
        (Bit(x, 0) * Bit(y, 0)) + 2 * (Bit(x, 1) * Bit(y, 1))
        + 4 * (Bit(x, 2) * Bit(y, 2)) + 8 * (Bit(x, 3) * Bit(y, 3))]

\* a ^ b and a & b for values below 2^16
BitXor(a, b) ==
    XorNibble[a % 16, b % 16]
    + 16 * XorNibble[(a \div 16) % 16, (b \div 16) % 16]
    + 256 * XorNibble[(a \div 256) % 16, (b \div 256) % 16]
    + 4096 * XorNibble[(a \div 4096) % 16, (b \div 4096) % 16]

BitAnd(a, b) ==
    AndNibble[a % 16, b % 16]
    + 16 * AndNibble[(a \div 16) % 16, (b \div 16) % 16]
    + 256 * AndNibble[(a \div 256) % 16, (b \div 256) % 16]
    + 4096 * AndNibble[(a \div 4096) % 16, (b \div 4096) % 16]

(***************************************************************************)
(* u32 values as <<hi, lo>>.                                               *)
(***************************************************************************)
U32Zero == <<0, 0>>
U32Max == <<65535, 65535>>

\* `n as u32` for a usize n
as_u32(n) == <<(n \div 65536) % 65536, n % 65536>>

\* `v as usize` for a u32 v (64-bit usize: no truncation)
as_usize(v) == v[1] * 65536 + v[2]

\* u32 comparison a > b
U32Gt(a, b) == a[1] > b[1] \/ (a[1] = b[1] /\ a[2] > b[2])

U32Xor(a, b) == <<BitXor(a[1], b[1]), BitXor(a[2], b[2])>>

\* a >> k for 0 < k < 16
U32Shr(a, k) ==
    LET p == 2 ^ k
        q == 2 ^ (16 - k)
    IN <<a[1] \div p, (a[2] \div p) + (a[1] % p) * q>>

\* wrapping a + 1 and a - 1
U32Inc(a) ==
    IF a[2] < 65535 THEN <<a[1], a[2] + 1>> ELSE <<(a[1] + 1) % 65536, 0>>

U32Dec(a) ==
    IF a[2] > 0 THEN <<a[1], a[2] - 1>> ELSE <<(a[1] + 65535) % 65536, 65535>>

\* variant: each byte is the masked value cast to u8, without the shift
to_be_bytes_masked(v) == <<0, 0, 0, v[2] % 256>>

\* u32::to_be_bytes
to_be_bytes(v) == <<v[1] \div 256, v[1] % 256, v[2] \div 256, v[2] % 256>>

\* (value[0] << 24) + (value[1] << 16) + (value[2] << 8) + (value[3] << 0)
bytes_to_u32(value) ==
    <<((value[1] * 256) % 65536) + value[2],
      ((value[3] * 256) % 65536) + value[4]>>

\* slice::split_at(mid), defined for mid <= Len(s) (it panics otherwise)
split_at(s, mid) == <<SubSeq(s, 1, mid), SubSeq(s, mid + 1, Len(s))>>

(***************************************************************************)
(* CRC-32/ISO-HDLC: reflected polynomial 0xEDB88320, init 0xFFFFFFFF,      *)
(* final xor 0xFFFFFFFF, table driven one byte at a time.                  *)
(***************************************************************************)
CrcPoly == <<60856, 33568>>

CrcRound(c) ==
    IF c[2] % 2 = 1 THEN U32Xor(U32Shr(c, 1), CrcPoly) ELSE U32Shr(c, 1)

CrcTable ==
    [i \in 0..255 |->
        CrcRound(CrcRound(CrcRound(CrcRound(
        CrcRound(CrcRound(CrcRound(CrcRound(<<0, i>>))))))))]

\* variant: the top bit of the input byte does not reach the table index
CrcUpdate_low7(c, b) ==
    U32Xor(CrcTable[BitXor(c[2] % 256, b % 128)], U32Shr(c, 8))

CrcUpdate(c, b) ==
    U32Xor(CrcTable[BitXor(c[2] % 256, b)], U32Shr(c, 8))

RECURSIVE CrcFold(_, _, _)
CrcFold(c, s, i) ==
    IF i > Len(s) THEN c
    ELSE LET n == CrcUpdate(c, s[i]) IN
         \* the test on n makes TLC compute each step before the next one
         IF n[1] < 0 THEN n ELSE CrcFold(n, s, i + 1)

checksum(s) == U32Xor(CrcFold(U32Max, s, 1), U32Max)

(***************************************************************************)
(* ChunkType                                                               *)
(***************************************************************************)
\* u8::is_ascii_alphabetic
is_ascii_alphabetic(b) == (65 <= b /\ b <= 90) \/ (97 <= b /\ b <= 122)

\* UTF-8 encoding of one Unicode scalar value
Utf8Char(cp) ==
    IF cp < 128 THEN <<cp>>
    ELSE IF cp < 2048 THEN <<192 + (cp \div 64), 128 + (cp % 64)>>
    ELSE IF cp < 65536
         THEN <<224 + (cp \div 4096), 128 + ((cp \div 64) % 64), 128 + (cp % 64)>>
         ELSE <<240 + (cp \div 262144), 128 + ((cp \div 4096) % 64),
                128 + ((cp \div 64) % 64), 128 + (cp % 64)>>

\* str::as_bytes: the UTF-8 bytes of the string
RECURSIVE str_as_bytes(_)
str_as_bytes(s) ==
    IF s = <<>> THEN <<>> ELSE Utf8Char(Head(s)) \o str_as_bytes(Tail(s))

\* impl TryFrom<[u8; 4]> for ChunkType
ChunkType_try_from(value) == [_data |-> value]

\* variant: the fourth byte is not checked
ChunkType_from_str_three(s) ==
    LET b == str_as_bytes(s) IN
    IF Len(b) < 4 THEN [tag |-> "TooShort"]
    ELSE IF /\ is_ascii_alphabetic(b[1])
            /\ is_ascii_alphabetic(b[2])
            /\ is_ascii_alphabetic(b[3])
         THEN [tag |-> "Ok", v |-> [_data |-> <<b[1], b[2], b[3], b[4]>>]]
         ELSE [tag |-> "InvalidCharacter"]

\* impl FromStr for ChunkType; s.len() is the length in bytes
ChunkType_from_str(s) ==
    LET b == str_as_bytes(s) IN
    IF Len(b) < 4 THEN [tag |-> "TooShort"]
    ELSE IF /\ is_ascii_alphabetic(b[1])
            /\ is_ascii_alphabetic(b[2])
            /\ is_ascii_alphabetic(b[3])
            /\ is_ascii_alphabetic(b[4])
         THEN [tag |-> "Ok", v |-> [_data |-> <<b[1], b[2], b[3], b[4]>>]]
         ELSE [tag |-> "InvalidCharacter"]

ChunkType_bytes(t) == t._data

is_critical(t) == BitAnd(t._data[1], 32) = 0

is_public(t) == BitAnd(t._data[2], 32) = 0

is_reserved_bit_valid(t) == BitAnd(t._data[3], 32) = 0

\* variant: the polarity of the safe-to-copy bit is inverted
is_safe_to_copy_inverted(t) == BitAnd(t._data[4], 32) = 0

is_safe_to_copy(t) == BitAnd(t._data[4], 32) # 0

is_valid(t) ==
    /\ is_ascii_alphabetic(t._data[1])
    /\ is_ascii_alphabetic(t._data[2])
    /\ is_ascii_alphabetic(t._data[3])
    /\ is_ascii_alphabetic(t._data[4])
    /\ is_reserved_bit_valid(t)

\* impl Display for ChunkType: each byte `as char` is the scalar value U+00xx
ChunkType_fmt(t) == [i \in 1..4 |-> t._data[i]]

\* impl PartialEq for ChunkType
ChunkType_eq(a, b) ==
    /\ BitAnd(a._data[1], 32) = BitAnd(b._data[1], 32)
    /\ BitAnd(a._data[2], 32) = BitAnd(b._data[2], 32)
    /\ BitAnd(a._data[3], 32) = BitAnd(b._data[3], 32)
    /\ BitAnd(a._data[4], 32) = BitAnd(b._data[4], 32)

(***************************************************************************)
(* Chunk                                                                   *)
(***************************************************************************)
\* variant: the CRC is written low byte first
Chunk_as_bytes_le_crc(c) ==
    LET w == to_be_bytes(c._crc) IN
    to_be_bytes(c._length) \o c._type._data \o c._data
        \o <<w[4], w[3], w[2], w[1]>>

Chunk_as_bytes(c) ==
    to_be_bytes(c._length) \o c._type._data \o c._data \o to_be_bytes(c._crc)

\* variant: the checksum covers the payload only, not the type
Chunk_new_data_crc(_type, _data) ==
    [_length |-> as_u32(Len(_data)), _crc |-> checksum(_data),
     _type |-> _type, _data |-> _data]

Chunk_new(_type, _data) ==
    LET c == [_length |-> as_u32(Len(_data)), _crc |-> U32Zero,
              _type |-> _type, _data |-> _data]
        rest0 == Chunk_as_bytes(c)
        rest1 == split_at(rest0, 4)[2]
        rest2 == split_at(rest1, Len(rest1) - 4)[1]
    IN [c EXCEPT !._crc = checksum(rest2)]

\* variant: only the low half of the stored CRC is compared
Chunk_try_from_low_crc(value) ==
    IF Len(value) < 12 THEN [tag |-> "TooShort"]
    ELSE
        LET len == split_at(value, 4)[1]
            rest == split_at(value, 4)[2]
        IN IF U32Gt(bytes_to_u32(len), as_u32(Len(rest)))
           THEN [tag |-> "TooShort"]
           ELSE
             LET n == as_usize(bytes_to_u32(len)) IN
             IF n + 8 > Len(rest) THEN [tag |-> "Panic"]
             ELSE
               LET framed == split_at(rest, n + 8)[1]
                   region == split_at(framed, n + 4)[1]
                   crc == split_at(framed, n + 4)[2]
                   _crc == checksum(region)
               IN IF bytes_to_u32(crc)[2] # _crc[2]
                  THEN [tag |-> "WrongCrc"]
                  ELSE
                    LET chunk_type == split_at(region, 4)[1]
                        data == split_at(region, 4)[2]
                    IN [tag |-> "Ok",
                        chunk |-> [_length |-> bytes_to_u32(len),
                                   _type |-> ChunkType_try_from(chunk_type),
                                   _data |-> data,
                                   _crc |-> _crc]]

Chunk_try_from(value) ==
    IF Len(value) < 12 THEN [tag |-> "TooShort"]
    ELSE
        LET len == split_at(value, 4)[1]
            rest == split_at(value, 4)[2]
        IN IF U32Gt(bytes_to_u32(len), as_u32(Len(rest)))
           THEN [tag |-> "TooShort"]
           ELSE
             LET n == as_usize(bytes_to_u32(len)) IN
             IF n + 8 > Len(rest) THEN [tag |-> "Panic"]
             ELSE
               LET framed == split_at(rest, n + 8)[1]
                   region == split_at(framed, n + 4)[1]
                   crc == split_at(framed, n + 4)[2]
                   _crc == checksum(region)
               IN IF bytes_to_u32(crc) # _crc
                  THEN [tag |-> "WrongCrc"]
                  ELSE
                    LET chunk_type == split_at(region, 4)[1]
                        data == split_at(region, 4)[2]
                    IN [tag |-> "Ok",
                        chunk |-> [_length |-> bytes_to_u32(len),
                                   _type |-> ChunkType_try_from(chunk_type),
                                   _data |-> data,
                                   _crc |-> _crc]]

\* UTF-8 continuation byte
IsCont(b) == 128 <= b /\ b <= 191

\* String::from_utf8: decode b from index i on, acc is the text decoded so far
RECURSIVE FromUtf8(_, _, _)
FromUtf8(b, i, acc) ==
    IF i > Len(b) THEN [tag |-> "Ok", s |-> acc]
    ELSE
      LET b0 == b[i]
          has(k) == i + k <= Len(b)
      IN
      IF b0 < 128 THEN FromUtf8(b, i + 1, Append(acc, b0))
      ELSE IF 194 <= b0 /\ b0 <= 223
      THEN IF has(1) /\ IsCont(b[i + 1])
           THEN FromUtf8(b, i + 2, Append(acc, (b0 - 192) * 64 + (b[i + 1] - 128)))
           ELSE [tag |-> "Utf8Error"]
      ELSE IF 224 <= b0 /\ b0 <= 239
      THEN IF /\ has(2)
              /\ IsCont(b[i + 1])
              /\ IsCont(b[i + 2])
              /\ (b0 = 224 => b[i + 1] >= 160)
              /\ (b0 = 237 => b[i + 1] <= 159)
           THEN FromUtf8(b, i + 3,
                    Append(acc, (b0 - 224) * 4096 + (b[i + 1] - 128) * 64
                                + (b[i + 2] - 128)))
           ELSE [tag |-> "Utf8Error"]
      ELSE IF 240 <= b0 /\ b0 <= 244
      THEN IF /\ has(3)
              /\ IsCont(b[i + 1])
              /\ IsCont(b[i + 2])
              /\ IsCont(b[i + 3])
              /\ (b0 = 240 => b[i + 1] >= 144)
              /\ (b0 = 244 => b[i + 1] <= 143)
           THEN FromUtf8(b, i + 4,
                    Append(acc, (b0 - 240) * 262144 + (b[i + 1] - 128) * 4096
                                + (b[i + 2] - 128) * 64 + (b[i + 3] - 128)))
           ELSE [tag |-> "Utf8Error"]
      ELSE [tag |-> "Utf8Error"]

data_as_string(c) == FromUtf8(c._data, 1, <<>>)

Chunk_length(c) == c._length

Chunk_chunk_type(c) == c._type

Chunk_data(c) == c._data

Chunk_crc(c) == c._crc

(***************************************************************************)
(* Inputs                                                                  *)
(***************************************************************************)
\* "This is where your secret message will be!"
MessageText ==
    <<84, 104, 105, 115, 32, 105, 115, 32, 119, 104, 101, 114, 101, 32, 121,
      111, 117, 114, 32, 115, 101, 99, 114, 101, 116, 32, 109, 101, 115, 115,
      97, 103, 101, 32, 119, 105, 108, 108, 32, 98, 101, 33>>

\* "This is where your secret message will be!".as_bytes()
Message == str_as_bytes(MessageText)

\* "RuSt"
RuSt == <<82, 117, 83, 116>>

\* "Rust"
Rust == <<82, 117, 115, 116>>

\* "Ru1t"
Ru1t == <<82, 117, 49, 116>>

SeqsUpTo(S, n) == UNION {[1..k -> S] : k \in 0..n}

None == [tag |-> "None"]

TypeInputs == {RuSt, <<0, 255, 65, 97>>}
DataBytes == {65, 255}
ExtraBytes == {0, 255}
DataInputs == SeqsUpTo(DataBytes, MaxData)
ExtraInputs == SeqsUpTo(ExtraBytes, MaxExtra) \ {<<>>}
\* R u S s t 1, and the two- and three-byte characters U+00E9 and U+20AC
StrChars == {82, 117, 83, 115, 116, 49, 233, 8364}
StrInputs == SeqsUpTo(StrChars, MaxStrLen)
QuadBytes == {65, 82, 117, 49, 64}
QuadInputs == [1..4 -> QuadBytes]
LenInputs == {as_u32(n) : n \in 0..(MaxData + 9)} \cup {<<32768, 0>>, U32Max}

\* the buffer s with bit k (0..7) of the byte at index i flipped
FlipAt(s, i, k) == [s EXCEPT ![i] = BitXor(s[i], 2 ^ k)]

\* the buffer s with the four bytes from index i on replaced by w
PutAt(s, i, w) ==
    [j \in 1..Len(s) |-> IF j >= i /\ j < i + 4 THEN w[j - i + 1] ELSE s[j]]

(***************************************************************************)
(* Chunk operations.  A run builds a chunk from (in_type, in_data),        *)
(* encodes it, lets the caller hand the parser that buffer or a damaged    *)
(* copy of it, parses, and encodes the parsed chunk again.                 *)
(***************************************************************************)
TypeIdle ==
    /\ str = None /\ ct = None /\ rhs = None /\ eqres = None /\ flags = None

ChunkIdle ==
    /\ in_type = None /\ in_data = <<>> /\ chunk = None /\ valid = <<>>
    /\ bytes = <<>> /\ result = None /\ out = <<>> /\ text = None

InitChunk ==
    /\ pc = "start"
    /\ in_type \in {ChunkType_try_from(q) : q \in TypeInputs}
    /\ in_data \in DataInputs
    /\ chunk = None /\ valid = <<>> /\ bytes = <<>> /\ result = None
    /\ out = <<>> /\ text = None /\ shown = None
    /\ TypeIdle

InitScenario ==
    /\ pc = "start"
    /\ in_type = ChunkType_try_from(RuSt)
    /\ in_data = Message
    /\ chunk = None /\ valid = <<>> /\ bytes = <<>> /\ result = None
    /\ out = <<>> /\ text = None /\ shown = None
    /\ TypeIdle

New ==
    /\ pc = "start"
    /\ chunk' = Chunk_new(in_type, in_data)
    /\ pc' = "built"
    /\ UNCHANGED <<in_type, in_data, valid, bytes, result, out, text, shown>>
    /\ UNCHANGED typeVars

AsBytes ==
    /\ pc = "built"
    /\ valid' = Chunk_as_bytes(chunk)
    /\ bytes' = valid'
    /\ pc' = "encoded"
    /\ UNCHANGED <<in_type, in_data, chunk, result, out, text, shown>>
    /\ UNCHANGED typeVars

Damage(b) ==
    /\ bytes' = b
    /\ UNCHANGED <<in_type, in_data, chunk, valid, result, out, text, shown>>
    /\ UNCHANGED typeVars

FlipBit ==
    /\ pc = "encoded"
    /\ \E i \in 1..Len(bytes), k \in 0..7 : Damage(FlipAt(bytes, i, k))
    /\ pc' = "corrupted"

SetCrc ==
    /\ pc = "encoded"
    /\ \E c \in {U32Inc(chunk._crc), U32Dec(chunk._crc), U32Zero} :
          Damage(PutAt(bytes, Len(bytes) - 3, to_be_bytes(c)))
    /\ pc' = "corrupted"

SetLength ==
    /\ pc = "encoded"
    /\ \E n \in LenInputs \ {chunk._length} :
          Damage(PutAt(bytes, 1, to_be_bytes(n)))
    /\ pc' = "corrupted"

Extend ==
    /\ pc \in {"encoded", "corrupted"}
    /\ \E e \in ExtraInputs : Damage(bytes \o e)
    /\ pc' = "extended"

Truncate ==
    /\ pc \in {"encoded", "corrupted", "extended"}
    /\ \E k \in 0..(Len(bytes) - 1) : Damage(SubSeq(bytes, 1, k))
    /\ pc' = "truncated"

TryFrom ==
    /\ pc \in {"encoded", "corrupted", "extended", "truncated"}
    /\ result' = Chunk_try_from(bytes)
    /\ pc' = "parsed"
    /\ UNCHANGED <<in_type, in_data, chunk, valid, bytes, out, text, shown>>
    /\ UNCHANGED typeVars

\* variant: the parsed chunk is encoded together with the buffer's tail
Reencode_keep_tail ==
    /\ pc = "parsed"
    /\ result.tag = "Ok"
    /\ out' = Chunk_as_bytes(result.chunk)
                \o SubSeq(bytes, Len(Chunk_as_bytes(result.chunk)) + 1, Len(bytes))
    /\ pc' = "reencoded"
    /\ UNCHANGED <<in_type, in_data, chunk, valid, bytes, result, text, shown>>
    /\ UNCHANGED typeVars

Reencode ==
    /\ pc = "parsed"
    /\ result.tag = "Ok"
    /\ out' = Chunk_as_bytes(result.chunk)
    /\ pc' = "reencoded"
    /\ UNCHANGED <<in_type, in_data, chunk, valid, bytes, result, text, shown>>
    /\ UNCHANGED typeVars

Inspect ==
    /\ pc = "reencoded"
    /\ text' = data_as_string(chunk)
    /\ shown' = ChunkType_fmt(Chunk_chunk_type(chunk))
    /\ pc' = "inspected"
    /\ UNCHANGED <<in_type, in_data, chunk, valid, bytes, result, out>>
    /\ UNCHANGED typeVars

NextChunk ==
    \/ New
    \/ AsBytes
    \/ FlipBit
    \/ SetCrc
    \/ SetLength
    \/ Extend
    \/ Truncate
    \/ TryFrom
    \/ Reencode
    \/ Inspect

Spec == InitChunk /\ [][NextChunk]_vars

SpecScenario == InitScenario /\ [][NextChunk]_vars
(***************************************************************************)
(* ChunkType operations.  A run builds a ChunkType from a string or from   *)
(* four raw bytes, then classifies it or compares it with another one.     *)
(***************************************************************************)
InitType ==
    /\ pc = "idle"
    /\ ChunkIdle
    /\ TypeIdle
    /\ shown = None

FromStr ==
    /\ pc = "idle"
    /\ \E s \in StrInputs :
          /\ str' = s
          /\ ct' = ChunkType_from_str(s)
    /\ pc' = "from_str"
    /\ UNCHANGED <<rhs, eqres, flags, shown>>
    /\ UNCHANGED chunkVars

TryFromBytes ==
    /\ pc = "idle"
    /\ \E q \in QuadInputs : ct' = [tag |-> "Ok", v |-> ChunkType_try_from(q)]
    /\ pc' = "try_from"
    /\ UNCHANGED <<str, rhs, eqres, flags, shown>>
    /\ UNCHANGED chunkVars

Classify ==
    /\ pc \in {"from_str", "try_from"}
    /\ ct.tag = "Ok"
    /\ flags' = [is_valid |-> is_valid(ct.v),
                 is_critical |-> is_critical(ct.v),
                 is_public |-> is_public(ct.v),
                 is_reserved_bit_valid |-> is_reserved_bit_valid(ct.v),
                 is_safe_to_copy |-> is_safe_to_copy(ct.v)]
    /\ shown' = ChunkType_fmt(ct.v)
    /\ pc' = "classified"
    /\ UNCHANGED <<str, ct, rhs, eqres>>
    /\ UNCHANGED chunkVars

Eq ==
    /\ pc = "try_from"
    /\ \E q \in QuadInputs :
          /\ rhs' = ChunkType_try_from(q)
          /\ eqres' = ChunkType_eq(ct.v, rhs')
    /\ pc' = "compared"
    /\ UNCHANGED <<str, ct, flags, shown>>
    /\ UNCHANGED chunkVars

NextType ==
    \/ FromStr
    \/ TryFromBytes
    \/ Classify
    \/ Eq

SpecType == InitType /\ [][NextType]_vars
(***************************************************************************)
(* Properties                                                              *)
(***************************************************************************)
Parsed == pc \in {"parsed", "reencoded", "inspected"}

\* the declared payload length N of a buffer of at least 4 bytes
Declared(b) == bytes_to_u32(SubSeq(b, 1, 4))

\* the buffer holds a complete frame: at least 12 + N bytes
FrameComplete(b) ==
    /\ Len(b) >= 12
    /\ ~U32Gt(Declared(b), as_u32(Len(b) - 12))

SameFields(a, b) ==
    /\ Chunk_length(a) = Chunk_length(b)
    /\ ChunkType_bytes(Chunk_chunk_type(a)) = ChunkType_bytes(Chunk_chunk_type(b))
    /\ Chunk_data(a) = Chunk_data(b)
    /\ Chunk_crc(a) = Chunk_crc(b)

\* C1: parsing the encoding of a chunk built by new succeeds and gives a
\* chunk with the same length, type bytes, payload and CRC.
C1_RoundTrip ==
    (Parsed /\ bytes = valid) =>
        /\ result.tag = "Ok"
        /\ SameFields(result.chunk, chunk)

C1_Witness ==
    /\ pc = "parsed"
    /\ bytes = valid
    /\ Len(in_data) >= 1
    /\ result.tag = "Ok"

\* C2: every buffer that does not hold a complete frame (shorter than 12
\* bytes, or with fewer than N + 8 bytes after the length field) is answered
\* with the too-short error value: no abort, no chunk.
C2_IncompleteIsTooShort ==
    (Parsed /\ ~FrameComplete(bytes)) => result.tag = "TooShort"

\* C3: whenever parsing a buffer succeeds, encoding the parsed chunk gives
\* back the whole buffer, byte for byte.
C3_ReencodeIsBuffer ==
    pc \in {"reencoded", "inspected"} => out = bytes

\* C3 (amended): whenever parsing a buffer succeeds, encoding the parsed chunk
\* gives back the first 12 + N bytes of the buffer (big-endian length, type,
\* payload, big-endian CRC), N being the length declared in the buffer;
\* bytes after the frame are not reproduced.
C3_ReencodeIsFrame ==
    pc \in {"reencoded", "inspected"} =>
        LET n == as_usize(Declared(bytes)) IN
        /\ Len(out) = 12 + n
        /\ Len(bytes) >= 12 + n
        /\ out = SubSeq(bytes, 1, 12 + n)
        /\ SubSeq(out, 1, 4) = to_be_bytes(Chunk_length(result.chunk))
        /\ SubSeq(out, 5, 8) = ChunkType_bytes(Chunk_chunk_type(result.chunk))
        /\ SubSeq(out, 9, 8 + n) = Chunk_data(result.chunk)
        /\ SubSeq(out, 9 + n, 12 + n) = to_be_bytes(Chunk_crc(result.chunk))

C3_Witness ==
    /\ pc = "reencoded"
    /\ Len(bytes) > Len(out)
    /\ Len(result.chunk._data) >= 1

\* C4: a complete frame whose stored CRC (big-endian u32 at offset 8 + N)
\* differs from the CRC-32 of bytes [4, 8 + N) is rejected with the CRC
\* error and gives no chunk; in particular a valid encoding whose stored
\* CRC is changed by 1.
C4_CrcMismatchRejected ==
    Parsed =>
        /\ (FrameComplete(bytes) =>
              LET n == as_usize(Declared(bytes))
                  stored == bytes_to_u32(SubSeq(bytes, 9 + n, 12 + n))
              IN stored # checksum(SubSeq(bytes, 5, 8 + n))
                    => result.tag = "WrongCrc")
        /\ (\E c \in {U32Inc(chunk._crc), U32Dec(chunk._crc)} :
                bytes = PutAt(valid, Len(valid) - 3, to_be_bytes(c)))
              => result.tag = "WrongCrc"

C4_Witness ==
    /\ pc = "parsed"
    /\ Len(in_data) >= 1
    /\ bytes = PutAt(valid, Len(valid) - 3, to_be_bytes(U32Dec(chunk._crc)))
    /\ result.tag = "WrongCrc"

\* C5: every chunk, built by new or by a successful parse, has its CRC equal
\* to the CRC-32 of type bytes followed by payload, and its length equal to
\* the number of payload bytes.
ChunkInvariant(c) ==
    /\ Chunk_crc(c) = checksum(ChunkType_bytes(Chunk_chunk_type(c)) \o Chunk_data(c))
    /\ as_usize(Chunk_length(c)) = Len(Chunk_data(c))

C5_ChunkInvariant ==
    /\ chunk # None => ChunkInvariant(chunk)
    /\ (Parsed /\ result.tag = "Ok") => ChunkInvariant(result.chunk)

C5_Witness ==
    /\ pc = "parsed"
    /\ result.tag = "Ok"
    /\ bytes # valid
    /\ Len(result.chunk._data) >= 1

\* C9: flipping one bit in the type or payload region of a valid encoding
\* makes the parse fail with the CRC error.
FlippedInRegion ==
    \E i \in 5..(8 + Len(in_data)), k \in 0..7 : bytes = FlipAt(valid, i, k)

C9_SingleBitFlipDetected ==
    (Parsed /\ FlippedInRegion) => result.tag = "WrongCrc"

C9_Witness ==
    /\ pc = "parsed"
    /\ \E i \in 9..(8 + Len(in_data)) : bytes = FlipAt(valid, i, 7)
    /\ result.tag = "WrongCrc"

\* C10: the chunk built from "RuSt" and the message has length 44, shows as
\* "RuSt", decodes to the message, encodes to 56 bytes, and parsing its
\* encoding reproduces all four fields.
Scenario(len, size) ==
    /\ pc # "start" =>
          as_usize(Chunk_length(chunk)) = len
    /\ pc \notin {"start", "built"} => Len(valid) = size
    /\ (Parsed /\ bytes = valid) =>
          /\ result.tag = "Ok"
          /\ SameFields(result.chunk, chunk)
    /\ pc = "inspected" =>
          /\ shown = RuSt
          /\ text = [tag |-> "Ok", s |-> MessageText]

C10_Scenario44 == Scenario(44, 56)

\* C10 (amended): the chunk built from "RuSt" and the message (42 bytes) has
\* length 42, shows as "RuSt", decodes to the message, encodes to 54 bytes,
\* and parsing its encoding reproduces all four fields.
C10_Scenario42 == Scenario(42, 54)

C10_Witness ==
    /\ pc = "inspected"
    /\ in_data = Message
    /\ bytes = valid
    /\ Len(out) = 54

(***************************************************************************)
(* ChunkType properties                                                    *)
(***************************************************************************)
Letters == (65..90) \cup (97..122)

\* C6: two ChunkTypes compare equal exactly when their four bytes are the
\* same.
C6_EqIsByteIdentity ==
    pc = "compared" =>
        (eqres <=> ChunkType_bytes(ct.v) = ChunkType_bytes(rhs))

\* C7: from_str fails exactly when the string has fewer than 4 characters or
\* one of its first 4 characters is not an ASCII letter; otherwise its bytes
\* are the first four characters, as when built from those four bytes.
C7_FromStr ==
    pc = "from_str" =>
        LET bad == Len(str) < 4 \/ \E i \in 1..4 : str[i] \notin Letters IN
        /\ (ct.tag # "Ok") <=> bad
        /\ ~bad =>
              /\ ChunkType_bytes(ct.v) = SubSeq(str, 1, 4)
              /\ ct.v = ChunkType_try_from(SubSeq(str, 1, 4))
        /\ str = Ru1t => ct.tag # "Ok"
        /\ str \in {RuSt, Rust} => ct.tag = "Ok"

C7_Witness ==
    /\ pc = "from_str"
    /\ Len(str) > 4
    /\ SubSeq(str, 1, 4) = RuSt
    /\ ct.tag = "Ok"

\* C8: the classification predicates are the bit-5 tests of the stored
\* bytes, and is_valid also needs four ASCII letters.
C8_Classification ==
    pc = "classified" =>
        LET d == ChunkType_bytes(ct.v) IN
        /\ flags.is_critical <=> Bit(d[1], 5) = 0
        /\ flags.is_public <=> Bit(d[2], 5) = 0
        /\ flags.is_reserved_bit_valid <=> Bit(d[3], 5) = 0
        /\ flags.is_safe_to_copy <=> Bit(d[4], 5) = 1
        /\ flags.is_valid <=>
              ((\A i \in 1..4 : d[i] \in Letters) /\ Bit(d[3], 5) = 0)
        /\ d = RuSt => flags.is_valid
        /\ d = Rust => ~flags.is_valid

C8_Witness ==
    /\ pc = "classified"
    /\ ChunkType_bytes(ct.v) = Rust
    /\ ~flags.is_valid
    /\ flags.is_safe_to_copy
====
